---- MODULE Spec2Model ----
(***************************************************************************)
(* File-encryption key store of local-patient-advocate                      *)
(* (src/crypto_storage.py) and the document operations that use it          *)
(* (src/views/documents.py, src/database.py).                               *)
(*                                                                          *)
(* Cryptography is modelled symbolically: PBKDF2 is a collision-free        *)
(* function of (password, salt, iterations); a Fernet token carries the key *)
(* it was made under and opens only under that key with an intact MAC.      *)
(* Text is a sequence of one-character strings; base64 text is a tagged     *)
(* value that decodes only when its padding is intact.                      *)
(***************************************************************************)
EXTENDS Integers, Sequences, FiniteSets, TLC

VARIABLES
    settings,     \* app_settings crypto rows as the shared connection sees them
    committed,    \* app_settings crypto rows as last committed to the database file
    docs,         \* rows of the documents table
    nextId,       \* AUTOINCREMENT counter of the documents table
    files,        \* *.enc files of the patient's storage directory
    tmp,          \* decrypted temporary files in the temp directory
    now,          \* wall clock, whole seconds
    snack,        \* snackbar messages shown by the last handler, in order
    manual,       \* number of rows persisted by hand so far
    first,        \* history: the first-run call that created the key material
    torn,         \* history: a first run failed between its INSERT statements
    last,         \* history: the last key-store call on the rows as they are
    uploaded,     \* history: the plaintext each completely written blob was made from
    cipher,       \* the file cipher and the KDF applied on their own: inputs and results
    dlg_open,     \* page._delete_dialog_open
    pending,      \* page._pending_delete: {} for None, else {the row asked about}
    tasks,        \* do_delete_async tasks created and not yet run, oldest first
    view,         \* how many times get_documents_view has built the view
    dlg_view,     \* the build whose closures the buttons of page._delete_dlg call
    table         \* table[v]: the rows of the data_table of the v-th build

vars == <<settings, committed, docs, nextId, files, tmp, now, snack,
          manual, first, torn, last, uploaded, cipher,
          dlg_open, pending, tasks, view, dlg_view, table>>

\* The state of the delete dialog and of the builds of the view
ui == <<dlg_open, pending, tasks, view, dlg_view>>

----------------------------------------------------------------------------
(* Bounds of the model *)

NPasswords == 2   \* distinct non-empty passwords
NSalts == 2       \* values os.urandom(16) can take
NFmks == 2        \* values Fernet.generate_key() can take
NIvs == 1         \* values of the per-encryption IV/timestamp of a Fernet token
MaxDocs == 2      \* document rows ever inserted
MaxManualDocs == 1 \* the same, where rows are persisted by hand or writes fail
MaxTime == 1      \* last second of the clock
MaxManual == 1    \* rows persisted by hand
MaxPlainLen == 2  \* longest plaintext given to the file cipher on its own
MaxNamedDocs == 4 \* document rows ever inserted, where only names matter
MaxViews == 2     \* builds of the documents view
MaxTasks == 1     \* delete tasks created and not yet run

(* Program constants *)

DEFAULT_KDF_ITERS == 390000
KDF_ITERS_FLOOR == 100000
FERNET_KEY_BYTES == 32
SALT_BYTES == 16

----------------------------------------------------------------------------
(* Text and numbers *)

Digits == <<"0", "1", "2", "3", "4", "5", "6", "7", "8", "9">>

IsDigit(c) == \E i \in 1..10 : Digits[i] = c

DigitVal(c) == (CHOOSE i \in 1..10 : Digits[i] = c) - 1

\* str(n) for n >= 0
RECURSIVE str(_)
str(n) ==
    IF n < 10 THEN <<Digits[n + 1]>>
    ELSE str(n \div 10) \o <<Digits[(n % 10) + 1]>>

\* int(s) accepts decimal digits; anything else raises ValueError
IsDecimal(s) == Len(s) > 0 /\ \A i \in 1..Len(s) : IsDigit(s[i])

RECURSIVE int(_)
int(s) ==
    IF Len(s) = 0 THEN 0
    ELSE 10 * int(SubSeq(s, 1, Len(s) - 1)) + DigitVal(s[Len(s)])

\* Passwords: the empty string and NPasswords non-empty ones
Password(i) == <<"p", Digits[i + 1]>>
NonEmptyPasswords == {Password(i) : i \in 1..NPasswords}
Passwords == {<< >>} \cup NonEmptyPasswords

\* page.db_password: the password the session was unlocked with
db_password == Password(1)

Ivs == 1..NIvs

----------------------------------------------------------------------------
(* base64 text *)

\* urlsafe_b64encode(b).decode(): text that decodes back to b
_b64e(b) == [enc |-> "b64", of |-> b]

\* The same text cut to a length that is no multiple of four
Truncated(s) == [enc |-> "badpad", of |-> s.of]

\* urlsafe_b64decode(s.encode()): the bytes, or binascii.Error on bad padding
_b64d(s) ==
    IF s.enc = "b64" THEN [ok |-> TRUE, b |-> s.of]
    ELSE [ok |-> FALSE, b |-> s.of]

\* os.urandom(n): n random bytes; id tells one draw from another
urandom(n, id) == [n |-> n, id |-> id]

\* The salts os.urandom(16) can return
Salts == {urandom(SALT_BYTES, id) : id \in 1..NSalts}

\* len(): of random bytes, and of the padded base64 text of bytes
RECURSIVE len(_)
len(v) == IF "enc" \in DOMAIN v THEN 4 * ((len(v.of) + 2) \div 3) ELSE v.n

----------------------------------------------------------------------------
(* PBKDF2 and Fernet *)

\* A plausible slip: the key is the random bytes themselves
Fernet_generate_keyRaw(id) == urandom(FERNET_KEY_BYTES, id)

\* Fernet.generate_key(): base64.urlsafe_b64encode(os.urandom(32))
Fernet_generate_key(id) == _b64e(urandom(FERNET_KEY_BYTES, id))

\* The keys Fernet.generate_key() can return
Fmks == {Fernet_generate_key(id) : id \in 1..NFmks}

\* What a call that raises returns: no key
NoKey == [enc |-> "none", of |-> urandom(0, 0)]

\* A plausible slip: the password does not reach the KDF
_derive_wrapping_fernet_keyNoPassword(password, salt, iters) ==
    [pw |-> << >>, salt |-> salt, iters |-> iters]

\* PBKDF2-HMAC-SHA256 of the password, base64-encoded: the wrapping key
_derive_wrapping_fernet_key(password, salt, iters) ==
    [pw |-> password, salt |-> salt, iters |-> iters]

\* Fernet(key).encrypt(data) with the fresh IV iv
Fernet_encrypt(key, data, iv) == [k |-> key, d |-> data, iv |-> iv, mac |-> "ok"]

\* A token with a bit flipped: its MAC no longer verifies
Tampered(token) == [token EXCEPT !.mac = "bad"]

\* A token cut short: the first bytes of it
Cut(token) == [token EXCEPT !.mac = "cut"]

\* Bytes that are no token at all
Malformed == [k |-> NoKey, d |-> << >>, iv |-> 0, mac |-> "none"]

\* Fernet(key).decrypt(token): the data, or InvalidToken
Fernet_decrypt(key, token) ==
    IF token.mac = "ok" /\ token.k = key
    THEN [ok |-> TRUE, d |-> token.d]
    ELSE [ok |-> FALSE, d |-> 0]

\* A plausible slip: nothing to encrypt, nothing written
encrypt_bytesSkipEmpty(fmk, plaintext, iv) ==
    IF plaintext = << >> THEN Malformed ELSE Fernet_encrypt(fmk, plaintext, iv)

\* Fernet(fmk).encrypt(plaintext)
encrypt_bytes(fmk, plaintext, iv) == Fernet_encrypt(fmk, plaintext, iv)

\* A plausible slip: what cannot be verified is handed back all the same
decrypt_bytesLenient(fmk, ciphertext) == [ok |-> TRUE, d |-> ciphertext.d]

\* Fernet(fmk).decrypt(ciphertext): the plaintext, or InvalidToken
decrypt_bytes(fmk, ciphertext) == Fernet_decrypt(fmk, ciphertext)

----------------------------------------------------------------------------
(* The app_settings rows of the key store *)

K_WRAPPED == "crypto.fmk_wrapped_b64"
K_SALT == "crypto.fmk_salt_b64"
K_ITERS == "crypto.kdf_iters"
Keys == {K_WRAPPED, K_SALT, K_ITERS}

\* A row is the empty set when fetchone() returns None, else {value}
NoRows == [k \in Keys |-> {}]

fetchone(rows, key) == rows[key]

Value(row) == CHOOSE v \in row : TRUE

\* INSERT ... ON CONFLICT(key) DO UPDATE SET value=excluded.value
Upsert(rows, key, value) == [rows EXCEPT ![key] = {value}]

----------------------------------------------------------------------------
(* get_or_create_file_master_key, step by step *)

\* iters_row and iters_row[0]: the row is there and its text is not empty
HasItersText(iters_row) == iters_row # {} /\ Value(iters_row) # << >>

\* int(iters_row[0]) raises ValueError
ItersUnreadable(iters_row) ==
    HasItersText(iters_row) /\ ~IsDecimal(Value(iters_row))

\* A plausible slip: the stored count is used without the floor
EffectiveItersNoFloor(iters_row) ==
    IF HasItersText(iters_row) THEN int(Value(iters_row)) ELSE DEFAULT_KDF_ITERS

\* A plausible slip: the check for a missing password is left out
PasswordMissingUnchecked(password) == FALSE

\* not db_password
PasswordMissing(password) == password = << >>

\* The iteration count of this call
EffectiveIters(iters_row) ==
    LET iters == IF HasItersText(iters_row) THEN int(Value(iters_row))
                 ELSE DEFAULT_KDF_ITERS
    IN  IF iters < KDF_ITERS_FLOOR THEN DEFAULT_KDF_ITERS ELSE iters

\* A plausible slip: no test for stored rows, every call takes the first-run
\* path
KeyStoreStateAlwaysFirstRun(wrapped_row, salt_row) == "Uninitialized"

\* A plausible slip: no guardrail, and a new key whenever a half is missing
KeyStoreStateRegenerate(wrapped_row, salt_row) ==
    IF wrapped_row = {} \/ salt_row = {} THEN "Uninitialized" ELSE "Ready"

\* The guardrail and the first-run test: which path the call takes
KeyStoreState(wrapped_row, salt_row) ==
    IF (wrapped_row = {}) # (salt_row = {}) THEN "Inconsistent"
    ELSE IF wrapped_row = {} /\ salt_row = {} THEN "Uninitialized"
    ELSE "Ready"

\* A plausible slip: the literal floor is written, not the count used
FirstRunWritesFloor(rows, salt, wrapped, iters, done) ==
    LET r1 == IF done >= 1 THEN Upsert(rows, K_SALT, _b64e(salt)) ELSE rows
        r2 == IF done >= 2 THEN Upsert(r1, K_WRAPPED, _b64e(wrapped)) ELSE r1
    IN  IF done >= 3 THEN Upsert(r2, K_ITERS, str(KDF_ITERS_FLOOR)) ELSE r2

\* A plausible slip: ON CONFLICT DO NOTHING for the iteration row
FirstRunWritesKeepIters(rows, salt, wrapped, iters, done) ==
    LET r1 == IF done >= 1 THEN Upsert(rows, K_SALT, _b64e(salt)) ELSE rows
        r2 == IF done >= 2 THEN Upsert(r1, K_WRAPPED, _b64e(wrapped)) ELSE r1
    IN  IF done >= 3 /\ fetchone(rows, K_ITERS) = {}
        THEN Upsert(r2, K_ITERS, str(iters)) ELSE r2

\* A plausible slip: the key itself is stored, not its wrapped form
FirstRunWritesPlainKey(rows, salt, wrapped, iters, done) ==
    LET r1 == IF done >= 1 THEN Upsert(rows, K_SALT, _b64e(salt)) ELSE rows
        r2 == IF done >= 2 THEN Upsert(r1, K_WRAPPED, _b64e(wrapped.d)) ELSE r1
    IN  IF done >= 3 THEN Upsert(r2, K_ITERS, str(iters)) ELSE r2

\* The rows after the first `done` of the three INSERT statements
FirstRunWrites(rows, salt, wrapped, iters, done) ==
    LET r1 == IF done >= 1 THEN Upsert(rows, K_SALT, _b64e(salt)) ELSE rows
        r2 == IF done >= 2 THEN Upsert(r1, K_WRAPPED, _b64e(wrapped)) ELSE r1
    IN  IF done >= 3 THEN Upsert(r2, K_ITERS, str(iters)) ELSE r2

\* A plausible slip: the unwrap path heals the stored iteration count
UnwrapWritesHeal(rows, iters) == Upsert(rows, K_ITERS, str(iters))

\* The unwrap path executes no INSERT or UPDATE
UnwrapWrites(rows, iters) == rows

\* What a call does: the rows the connection sees afterwards, whether it
\* committed, how it ended (kind), the key it returned, the iteration count
\* it derived with (0: no derivation) and whether it generated a new FMK.
Outcome(rows, commit, kind, fmk, iters, generated) ==
    [rows |-> rows, commit |-> commit, kind |-> kind, fmk |-> fmk,
     iters |-> iters, generated |-> generated]

\* salt, fmk, iv: what os.urandom, Fernet.generate_key and Fernet.encrypt
\* draw if the call gets that far.  failAt: 0 when the database works; k in
\* 1..3 when the k-th INSERT raises; 4 when conn.commit() raises.  The kinds
\* of failure: InvalidInput is the ValueError for an empty password,
\* InconsistentKeyState and UnlockFailed are the two RuntimeErrors, and
\* int.ValueError, binascii.Error and sqlite3.Error are what int(), _b64d
\* and the database raise, which the function lets through.
get_or_create_file_master_key(rows, password, salt, fmk, iv, failAt) ==
    IF PasswordMissing(password)
    THEN Outcome(rows, FALSE, "InvalidInput", NoKey, 0, FALSE)
    ELSE
    LET wrapped_row == fetchone(rows, K_WRAPPED)
        salt_row == fetchone(rows, K_SALT)
        iters_row == fetchone(rows, K_ITERS)
    IN
    IF ItersUnreadable(iters_row)
    THEN Outcome(rows, FALSE, "int.ValueError", NoKey, 0, FALSE)
    ELSE
    LET iters == EffectiveIters(iters_row)
        state == KeyStoreState(wrapped_row, salt_row)
    IN
    IF state = "Inconsistent"
    THEN Outcome(rows, FALSE, "InconsistentKeyState", NoKey, 0, FALSE)
    ELSE IF state = "Uninitialized"
    THEN \* first run: generate + store
        LET wrap_key == _derive_wrapping_fernet_key(password, salt, iters)
            wrapped == Fernet_encrypt(wrap_key, fmk, iv)
        IN  IF failAt = 0
            THEN Outcome(FirstRunWrites(rows, salt, wrapped, iters, 3),
                         TRUE, "ok", fmk, iters, TRUE)
            ELSE Outcome(FirstRunWrites(rows, salt, wrapped, iters, failAt - 1),
                         FALSE, "sqlite3.Error", NoKey, iters, TRUE)
    ELSE \* existing: unwrap
        LET s == _b64d(Value(salt_row))
            w == _b64d(Value(wrapped_row))
        IN  IF ~s.ok \/ ~w.ok
            THEN Outcome(rows, FALSE, "binascii.Error", NoKey, 0, FALSE)
            ELSE
            LET wrap_key == _derive_wrapping_fernet_key(password, s.b, iters)
                got == Fernet_decrypt(wrap_key, w.b)
            IN  IF got.ok
                THEN Outcome(UnwrapWrites(rows, iters), FALSE, "ok", got.d,
                             iters, FALSE)
                ELSE Outcome(UnwrapWrites(rows, iters), FALSE, "UnlockFailed",
                             NoKey, iters, FALSE)

----------------------------------------------------------------------------
(* Documents: names, paths, the documents table *)

Roots == {"report"}
Plaintexts == {"patient record"}

\* A file name: the root and the " (N)" suffixes before the extension
Name(root, sfx) == [root |-> root, sfx |-> sfx]
PickedNames == {Name(r, << >>) : r \in Roots}

\* enc_target(name): dest_dir/name.enc; the directory is fixed per patient
enc_target(name) == name

\* A plausible slip: no rename loop, the picked name is used as it is
FreeNameOverwrite(picked, file_name, counter) == file_name

\* A plausible slip: the next candidate is built from the candidate before
RECURSIVE FreeNameStacked(_, _, _)
FreeNameStacked(picked, file_name, counter) ==
    IF enc_target(file_name) \in DOMAIN files
    THEN FreeNameStacked(picked, Name(file_name.root, file_name.sfx \o <<counter>>),
                         counter + 1)
    ELSE file_name

\* The rename loop: the first of name, root (1), root (2), ... not on disk
RECURSIVE FreeName(_, _, _)
FreeName(picked, file_name, counter) ==
    IF enc_target(file_name) \in DOMAIN files
    THEN FreeName(picked, Name(picked.root, picked.sfx \o <<counter>>), counter + 1)
    ELSE file_name

\* INSERT INTO documents ...; the new row
add_document(id, file_name, file_path) ==
    [id |-> id, file_name |-> file_name, file_path |-> file_path]

\* DELETE FROM documents WHERE id=?
delete_document(rows, doc_id) == {d \in rows : d.id # doc_id}

\* show_snack(page, message, color); ex is the exception inside the message
Msg(text, ex) == [msg |-> text, ex |-> ex]

\* os.remove(path)
Remove(fs, path) == [q \in DOMAIN fs \ {path} |-> fs[q]]

----------------------------------------------------------------------------
(* State *)

\* The history record before any call of the key store
NoCall == [pw |-> << >>, kind |-> "none", fmk |-> NoKey, iters |-> 0,
           generated |-> FALSE]

\* The history record of an operation that called the key store
Called(pw, o) ==
    [pw |-> pw, kind |-> o.kind, fmk |-> o.fmk, iters |-> o.iters,
     generated |-> o.generated]

\* The file cipher and the KDF before they are applied on their own
Idle == [step |-> "idle"]

Init ==
    /\ settings = NoRows
    /\ committed = NoRows
    /\ docs = {}
    /\ nextId = 1
    /\ files = << >>
    /\ tmp = << >>
    /\ now = 0
    /\ snack = << >>
    /\ manual = 0
    /\ first = {}
    /\ torn = FALSE
    /\ last = NoCall
    /\ uploaded = << >>
    /\ cipher = Idle
    /\ dlg_open = FALSE
    /\ pending = {}
    /\ tasks = << >>
    /\ view = 1
    /\ dlg_view = 1
    /\ table = <<{}>>

\* What a key-store call leaves in the history variables
History(pw, o, failAt) ==
    /\ last' = Called(pw, o)
    /\ first' = IF o.generated /\ o.kind = "ok" /\ first = {}
                THEN {[pw |-> pw, fmk |-> o.fmk,
                       iters_before |-> fetchone(settings, K_ITERS),
                       rows |-> o.rows]}
                ELSE first
    /\ torn' = (torn \/ (o.generated /\ failAt \in {2, 3}))

\* What a call may draw: <<salt, fmk, iv, failAt>>.  Only the first-run path
\* draws anything; failAt is 0 when the database works, k in 1..3 when the
\* k-th INSERT raises, 4 when conn.commit() raises.
Draws(rows, Faults) ==
    IF fetchone(rows, K_WRAPPED) = {} /\ fetchone(rows, K_SALT) = {}
    THEN Salts \X Fmks \X Ivs \X Faults
    ELSE {<<urandom(SALT_BYTES, 1), Fernet_generate_key(1), 1, 0>>}

----------------------------------------------------------------------------
(* Operations.  Faults is the set of database faults the environment may   *)
(* inject into a first run: {0} is a database that works.                   *)

\* get_or_create_file_master_key(conn, password), called directly
Call(Faults) ==
    \E pw \in Passwords, draw \in Draws(settings, Faults) :
        \E o \in {get_or_create_file_master_key(settings, pw, draw[1], draw[2],
                                                draw[3], draw[4])} :
            /\ settings' = o.rows
            /\ committed' = IF o.commit THEN o.rows ELSE committed
            /\ History(pw, o, draw[4])
            /\ UNCHANGED <<docs, nextId, files, tmp, now, snack, manual,
                           uploaded, cipher, ui, table>>

\* Where an upload can fail outside the key store: reading the source,
\* opening the target, writing it (a partial file stays), the INSERT of
\* add_document, its commit (the row stays in the connection's transaction)
UploadFaults == {"none", "read", "open", "write", "insert", "commit"}

\* A plausible slip: the metadata row is recorded before the file is written
UploadAddsRowFirst(fault) == fault \in {"none", "commit", "open", "write"}

\* The upload gets as far as a row in the documents table
UploadAddsRow(fault) == fault \in {"none", "commit"}

\* The upload creates the target file; complete unless the write failed
UploadCreatesFile(fault) == fault \in {"none", "write", "insert", "commit"}

\* The outcome of a key-store call that was not made
NotCalled == Outcome(settings, FALSE, "none", NoKey, 0, FALSE)

\* A plausible slip: the error of the key store is swallowed and the
\* handler carries on
KeyObtainedIgnoringErrors(o) == TRUE

\* The handler has the key: get_or_create_file_master_key returned
KeyObtained(o) == o.kind = "ok"

\* upload_document_click from the return of the picker to its end: what it
\* leaves behind.  draw is what the key store draws, fault where the upload
\* fails outside the key store.
upload_document_click(picked, plaintext, civ, draw, fault) ==
    LET file_name == FreeName(picked, picked, 1)
        enc_path == enc_target(file_name)
        o == get_or_create_file_master_key(settings, db_password, draw[1],
                                           draw[2], draw[3], draw[4])
        ciphertext == encrypt_bytes(o.fmk, plaintext, civ)
    IN  IF fault = "read"
        THEN [called |-> FALSE, o |-> NotCalled, file_name |-> file_name,
              committed |-> committed, files |-> files, uploaded |-> uploaded,
              docs |-> docs, nextId |-> nextId, refresh |-> FALSE,
              snack |-> <<Msg("Error", "read")>>]
        ELSE IF ~KeyObtained(o)
        THEN [called |-> TRUE, o |-> o, file_name |-> file_name,
              committed |-> committed, files |-> files, uploaded |-> uploaded,
              docs |-> docs, nextId |-> nextId, refresh |-> FALSE,
              snack |-> <<Msg("Error", o.kind)>>]
        ELSE [called |-> TRUE, o |-> o, file_name |-> file_name,
              committed |-> IF fault = "none" \/ o.commit THEN o.rows
                            ELSE committed,
              files |-> IF UploadCreatesFile(fault)
                        THEN (enc_path :> IF fault = "write" THEN Cut(ciphertext)
                                          ELSE ciphertext) @@ files
                        ELSE files,
              uploaded |-> IF UploadCreatesFile(fault) /\ fault # "write"
                           THEN (enc_path :> plaintext) @@ uploaded
                           ELSE uploaded,
              docs |-> IF UploadAddsRow(fault)
                       THEN docs \cup {add_document(nextId, file_name, enc_path)}
                       ELSE docs,
              nextId |-> IF UploadAddsRow(fault) THEN nextId + 1 ELSE nextId,
              refresh |-> fault = "none",
              snack |-> IF fault = "none"
                        THEN <<Msg("Document uploaded securely.", "")>>
                        ELSE <<Msg("Error", fault)>>]

\* refresh_table of the v-th build: its data_table shows the rows of the
\* documents table
refresh_table(tables, v, rows) == [tables EXCEPT ![v] = rows]

\* An upload started from the v-th build of the view, after the picker
\* returned a local file
Upload(Faults, IoFaults, cap) ==
    /\ nextId <= cap
    /\ Cardinality(DOMAIN files) < cap
    /\ \E picked \in PickedNames, plaintext \in Plaintexts, civ \in Ivs,
          draw \in Draws(settings, Faults), fault \in IoFaults, v \in 1..view :
        \E r \in {upload_document_click(picked, plaintext, civ, draw, fault)} :
            /\ IF r.called THEN History(db_password, r.o, draw[4])
               ELSE UNCHANGED <<first, torn, last>>
            /\ settings' = r.o.rows
            /\ committed' = r.committed
            /\ files' = r.files
            /\ uploaded' = r.uploaded
            /\ docs' = r.docs
            /\ nextId' = r.nextId
            /\ snack' = r.snack
            /\ table' = IF r.refresh THEN refresh_table(table, v, r.docs) ELSE table
    /\ UNCHANGED <<tmp, now, manual, cipher, ui>>

\* The temporary path of an open: patient id and whole seconds of the clock
tmp_path(clock) == clock

\* open_doc_async for a row of a table: what it leaves behind
open_doc_async(d, draw) ==
    LET path == d.file_path
        o == get_or_create_file_master_key(settings, db_password, draw[1],
                                           draw[2], draw[3], draw[4])
        plaintext == decrypt_bytes(o.fmk, files[path])
    IN  IF path \notin DOMAIN files
        THEN [called |-> FALSE, o |-> NotCalled, wrote |-> FALSE, tmp |-> tmp,
              snack |-> <<Msg("File not found.", "")>>]
        ELSE IF ~KeyObtained(o)
        THEN [called |-> TRUE, o |-> o, wrote |-> FALSE, tmp |-> tmp,
              snack |-> <<Msg("Open failed", o.kind)>>]
        ELSE IF ~plaintext.ok
        THEN [called |-> TRUE, o |-> o, wrote |-> FALSE, tmp |-> tmp,
              snack |-> <<Msg("Open failed", "InvalidToken")>>]
        ELSE [called |-> TRUE, o |-> o, wrote |-> TRUE,
              tmp |-> (tmp_path(now) :> plaintext.d) @@ tmp,
              snack |-> <<Msg("Opened a temporary decrypted copy (will be cleaned up later).", "")>>]

\* A click on the open button of a row of the displayed table
Open(Faults) ==
    \E d \in table[view], draw \in Draws(settings, Faults) :
        \E r \in {open_doc_async(d, draw)} :
            /\ IF r.called THEN History(db_password, r.o, draw[4])
               ELSE UNCHANGED <<first, torn, last>>
            /\ settings' = r.o.rows
            /\ committed' = IF r.o.commit THEN r.o.rows ELSE committed
            /\ tmp' = r.tmp
            /\ snack' = r.snack
            /\ UNCHANGED <<docs, nextId, files, now, manual, uploaded, cipher,
                           ui, table>>

\* get_document_path(conn, doc_id): {} for None, else {the path of the row}
get_document_path(rows, doc_id) == {d.file_path : d \in {x \in rows : x.id = doc_id}}

\* A plausible slip: os.remove without a try of its own
DeleteSnacksNoInnerTry(exists, removeFails) ==
    IF exists /\ removeFails THEN <<Msg("Delete failed", "os.remove")>>
    ELSE <<Msg("Record and file deleted.", "")>>

\* A plausible slip: the success message is not shown after the warning
DeleteSnacksWarningOnly(exists, removeFails) ==
    IF exists /\ removeFails
    THEN <<Msg("Deleted record, but file could not be removed.", "")>>
    ELSE <<Msg("Record and file deleted.", "")>>

\* The messages do_delete_async shows, in order
DeleteSnacks(exists, removeFails) ==
    (IF exists /\ removeFails
     THEN <<Msg("Deleted record, but file could not be removed.", "")>>
     ELSE << >>)
    \o <<Msg("Record and file deleted.", "")>>

\* do_delete_async(doc_id): what it leaves behind; removeFails: os.remove
\* raises
do_delete_async(doc_id, removeFails) ==
    LET file_path == get_document_path(docs, doc_id)
        exists == file_path # {} /\ Value(file_path) \in DOMAIN files
        snacks == DeleteSnacks(exists, removeFails)
    IN  [exists |-> exists,
         failed |-> snacks[1].msg = "Delete failed",
         docs |-> delete_document(docs, doc_id),
         files |-> IF exists /\ ~removeFails THEN Remove(files, Value(file_path))
                   ELSE files,
         snack |-> snacks]

\* The task runs: row, file, table of the build the dialog belongs to, messages
RunDelete(doc_id, removeFails) ==
    \E r \in {do_delete_async(doc_id, removeFails)} :
        /\ docs' = r.docs
        /\ committed' = settings
        /\ files' = r.files
        /\ snack' = r.snack
        /\ table' = IF r.failed THEN table
                    ELSE refresh_table(table, dlg_view, r.docs)
        /\ UNCHANGED <<settings, nextId, tmp, now, manual, first, torn, last,
                       uploaded, cipher>>

\* A row of the displayed table is deleted: click, confirmation and task
Delete(RemoveFaults) ==
    /\ ~dlg_open /\ tasks = << >>
    /\ \E d \in table[view], removeFails \in RemoveFaults : RunDelete(d.id, removeFails)
    /\ UNCHANGED ui

\* update_profile: another operation that commits on the shared connection
update_profile ==
    /\ committed' = settings
    /\ snack' = <<Msg("Profile updated successfully.", "")>>
    /\ UNCHANGED <<settings, docs, nextId, files, tmp, now,
                   manual, first, torn, last, uploaded, cipher, ui, table>>

\* A second passes
Tick ==
    /\ now < MaxTime
    /\ now' = now + 1
    /\ UNCHANGED <<settings, committed, docs, nextId, files, tmp, snack,
                   manual, first, torn, last, uploaded, cipher, ui, table>>

----------------------------------------------------------------------------
(* Rows persisted by hand through the settings interface *)

\* A wrapped key that was made elsewhere
ForeignToken ==
    Fernet_encrypt(_derive_wrapping_fernet_key(Password(1), urandom(SALT_BYTES, 1),
                                               DEFAULT_KDF_ITERS),
                   Fernet_generate_key(1), 1)

ManualIters == {<< >>, <<"x">>, str(1000), str(99999), str(100000)}

\* The texts tried for a row: for the salt any salt or a truncated text, for
\* the wrapped key a foreign token or the stored one tampered with or
\* truncated, for the iteration count the texts of ManualIters
ManualValues(rows, key) ==
    IF key = K_SALT
    THEN {_b64e(s) : s \in Salts} \cup {Truncated(_b64e(urandom(SALT_BYTES, 1)))}
    ELSE IF key = K_WRAPPED
    THEN {_b64e(ForeignToken)} \cup
         (IF rows[key] = {} THEN {}
          ELSE {_b64e(Tampered(Value(rows[key]).of)), Truncated(Value(rows[key]))})
    ELSE ManualIters

\* set_setting(conn, key, value) on one of the three crypto rows
set_setting ==
    /\ manual < MaxManual
    /\ \E key \in Keys :
        \E value \in ManualValues(settings, key) :
            /\ settings' = Upsert(settings, key, value)
            /\ committed' = settings'
    /\ manual' = manual + 1
    /\ last' = NoCall
    /\ UNCHANGED <<docs, nextId, files, tmp, now, snack, first, torn,
                   uploaded, cipher, ui, table>>

----------------------------------------------------------------------------
(* Specifications *)

NoFaults == {0}
InsertFaults == 0..4

\* The program on a database that works, from an empty key store
Next ==
    \/ Call(NoFaults)
    \/ Upload(NoFaults, {"none"}, MaxDocs)
    \/ Open(NoFaults)
    \/ Delete({FALSE})
    \/ update_profile
    \/ Tick

Spec == Init /\ [][Next]_vars

\* The same steps under the scheduling of the event loop: while a step can
\* be taken (a task is scheduled, the user acts, the clock moves on), one is
SpecLive == Init /\ [][Next]_vars /\ WF_vars(Next)

\* The key store and the document operations, with crypto rows also
\* persisted by hand
NextManual ==
    \/ Call(NoFaults)
    \/ Upload(NoFaults, {"none"}, MaxManualDocs)
    \/ Open(NoFaults)
    \/ Delete({FALSE})
    \/ set_setting

SpecManual == Init /\ [][NextManual]_vars

\* The key store and the operations that commit, on a database whose
\* writes may fail
NextFault ==
    \/ Call(InsertFaults)
    \/ Upload(InsertFaults, UploadFaults, MaxManualDocs)
    \/ Open(InsertFaults)
    \/ Delete(BOOLEAN)
    \/ update_profile

SpecFault == Init /\ [][NextFault]_vars

\* A file of the storage directory is removed outside the program: what
\* os.path.exists(file_path) of a delete or an open then finds
FileLost ==
    /\ \E p \in DOMAIN files : files' = Remove(files, p)
    /\ UNCHANGED <<settings, committed, docs, nextId, tmp, now, snack, manual,
                   first, torn, last, uploaded, cipher, ui, table>>

\* A plausible slip: no test of page._delete_dialog_open
delete_handlerNoGuard(d) ==
    [dlg_open |-> TRUE, pending |-> {[id |-> d.id, name |-> d.file_name]}]

\* delete_handler for the delete button of row d: the flag and the pending
\* row it leaves
delete_handler(d) ==
    IF dlg_open
    THEN [dlg_open |-> dlg_open, pending |-> pending]
    ELSE [dlg_open |-> TRUE, pending |-> {[id |-> d.id, name |-> d.file_name]}]

\* A click on the delete button of a row of the displayed table
ClickDelete ==
    /\ \E d \in table[view] :
           LET r == delete_handler(d)
           IN  dlg_open' = r.dlg_open /\ pending' = r.pending
    /\ UNCHANGED <<settings, committed, docs, nextId, files, tmp, now, snack,
                   manual, first, torn, last, uploaded, cipher,
                   tasks, view, dlg_view, table>>

\* Cancel, or the dialog is dismissed
close_delete_dlg ==
    /\ dlg_open
    /\ pending' = {}
    /\ dlg_open' = FALSE
    /\ UNCHANGED <<settings, committed, docs, nextId, files, tmp, now, snack,
                   manual, first, torn, last, uploaded, cipher,
                   tasks, view, dlg_view, table>>

\* The Delete button of the dialog
confirm_delete ==
    /\ dlg_open
    /\ Len(tasks) < MaxTasks
    /\ tasks' = IF pending = {} THEN tasks
                ELSE Append(tasks, Value(pending).id)
    /\ pending' = {}
    /\ dlg_open' = FALSE
    /\ UNCHANGED <<settings, committed, docs, nextId, files, tmp, now, snack,
                   manual, first, torn, last, uploaded, cipher,
                   view, dlg_view, table>>

\* The event loop runs the oldest delete task
DeleteTask(RemoveFaults) ==
    /\ tasks # << >>
    /\ \E removeFails \in RemoveFaults : RunDelete(Head(tasks), removeFails)
    /\ tasks' = Tail(tasks)
    /\ UNCHANGED <<dlg_open, pending, view, dlg_view>>

\* The user comes back to the documents page: the view is built again.  The
\* flag, the pending row and the dialog of the page are kept (hasattr), the
\* new data_table is filled by refresh_table.
get_documents_view ==
    /\ view < MaxViews
    /\ view' = view + 1
    /\ table' = Append(table, docs)
    /\ UNCHANGED <<settings, committed, docs, nextId, files, tmp, now, snack,
                   manual, first, torn, last, uploaded, cipher,
                   dlg_open, pending, tasks, dlg_view>>

\* Uploads, the delete dialog and rebuilds of the view
NextView ==
    \/ Upload(NoFaults, {"none"}, MaxDocs)
    \/ ClickDelete
    \/ close_delete_dlg
    \/ confirm_delete
    \/ DeleteTask({FALSE})
    \/ get_documents_view

SpecView == Init /\ [][NextView]_vars

\* The bytes of a file of the storage directory are damaged outside the
\* program: what decrypt_bytes of an open then rejects
FileDamaged ==
    /\ \E p \in DOMAIN files :
           /\ files[p].mac = "ok"
           /\ files' = [files EXCEPT ![p] = Tampered(files[p])]
    /\ UNCHANGED <<settings, committed, docs, nextId, tmp, now, snack, manual,
                   first, torn, last, uploaded, cipher, ui, table>>

\* Uploads and opens with a failing database and damaged files
NextDamage ==
    \/ Upload(InsertFaults, {"none"}, MaxDocs)
    \/ Open(InsertFaults)
    \/ FileDamaged

SpecDamage == Init /\ [][NextDamage]_vars

\* Uploads of one picked name and deletes
NextDocs ==
    \/ Upload(NoFaults, {"none"}, MaxNamedDocs)
    \/ Delete({FALSE})

SpecDocs == Init /\ [][NextDocs]_vars

\* Uploads and deletes, with files that cannot be removed and files lost
\* outside the program
NextDelete ==
    \/ Upload(NoFaults, {"none"}, MaxDocs)
    \/ Delete(BOOLEAN)
    \/ FileLost

SpecDelete == Init /\ [][NextDelete]_vars

----------------------------------------------------------------------------
(* The file cipher and the key derivation applied on their own *)

Bytes == {0, 1}

\* The byte strings of length 0..MaxPlainLen
ByteStrings == UNION {[1..n -> Bytes] : n \in 0..MaxPlainLen}

\* The inputs: a key and a plaintext for the cipher, or a password, a salt
\* and an iteration count for the derivation
CipherInputs ==
    {[step |-> "plain", fmk |-> k, plaintext |-> p] :
        k \in Fmks, p \in ByteStrings}

KdfInputs ==
    {[step |-> "password", password |-> pw, salt |-> s, iters |-> DEFAULT_KDF_ITERS] :
        pw \in Passwords, s \in Salts}

InitCipher ==
    /\ settings = NoRows
    /\ committed = NoRows
    /\ docs = {}
    /\ nextId = 1
    /\ files = << >>
    /\ tmp = << >>
    /\ now = 0
    /\ snack = << >>
    /\ manual = 0
    /\ first = {}
    /\ torn = FALSE
    /\ last = NoCall
    /\ uploaded = << >>
    /\ cipher \in CipherInputs \cup KdfInputs
    /\ dlg_open = FALSE
    /\ pending = {}
    /\ tasks = << >>
    /\ view = 1
    /\ dlg_view = 1
    /\ table = <<{}>>

\* ciphertext = encrypt_bytes(fmk, plaintext)
Encrypt ==
    /\ cipher.step = "plain"
    /\ \E iv \in Ivs :
        cipher' = [step |-> "encrypted", fmk |-> cipher.fmk,
                   plaintext |-> cipher.plaintext, how |-> "intact",
                   ciphertext |-> encrypt_bytes(cipher.fmk, cipher.plaintext, iv)]
    /\ UNCHANGED <<settings, committed, docs, nextId, files, tmp, now, snack,
                   manual, first, torn, last, uploaded, ui, table>>

\* The stored ciphertext is altered, cut short or replaced by other bytes
Alter ==
    /\ cipher.step = "encrypted" /\ cipher.how = "intact"
    /\ \E how \in {"altered", "truncated", "malformed"} :
        cipher' = [cipher EXCEPT
                     !.how = how,
                     !.ciphertext = IF how = "altered" THEN Tampered(@)
                                    ELSE IF how = "truncated" THEN Cut(@)
                                    ELSE Malformed]
    /\ UNCHANGED <<settings, committed, docs, nextId, files, tmp, now, snack,
                   manual, first, torn, last, uploaded, ui, table>>

\* decrypt_bytes(key, ciphertext) under any key
Decrypt ==
    /\ cipher.step = "encrypted"
    /\ \E key \in Fmks :
        cipher' = [step |-> "decrypted", fmk |-> cipher.fmk,
                   plaintext |-> cipher.plaintext, how |-> cipher.how,
                   ciphertext |-> cipher.ciphertext, key |-> key,
                   out |-> decrypt_bytes(key, cipher.ciphertext)]
    /\ UNCHANGED <<settings, committed, docs, nextId, files, tmp, now, snack,
                   manual, first, torn, last, uploaded, ui, table>>

\* _derive_wrapping_fernet_key(password, salt, iters): the function has no
\* branch that raises, it returns a key for every password
Derive ==
    /\ cipher.step = "password"
    /\ cipher' = [step |-> "derived", password |-> cipher.password,
                  kind |-> "ok",
                  key |-> _derive_wrapping_fernet_key(cipher.password, cipher.salt,
                                                      cipher.iters)]
    /\ UNCHANGED <<settings, committed, docs, nextId, files, tmp, now, snack,
                   manual, first, torn, last, uploaded, ui, table>>

NextCipher ==
    \/ Encrypt
    \/ Alter
    \/ Decrypt
    \/ Derive

SpecCipher == InitCipher /\ [][NextCipher]_vars

----------------------------------------------------------------------------
(* Vocabulary of the properties *)

Present(rows, key) == fetchone(rows, key) # {}

\* Exactly one of the salt row and the wrapped-key row is there
PartialState(rows) == Present(rows, K_SALT) # Present(rows, K_WRAPPED)

BothPresent(rows) == Present(rows, K_SALT) /\ Present(rows, K_WRAPPED)

\* Every call that can be made on the rows when the database works: the
\* password given and what the call does
Calls(rows) ==
    {[pw |-> pw,
      o |-> get_or_create_file_master_key(rows, pw, d[1], d[2], d[3], d[4])] :
        <<pw, d>> \in Passwords \X Draws(rows, NoFaults)}

\* The first run that created the key material
FirstRun == CHOOSE f \in first : TRUE

\* The key k can be read from a stored base64 text without any key: it is
\* the text, or what the text decodes to
PlainIn(text, k) == text = k \/ text.of = k

\* A key in the form Fernet takes: the base64 text, 44 characters long, of
\* 32 bytes
IsFernetKey(k) ==
    /\ "enc" \in DOMAIN k /\ k.enc = "b64"
    /\ len(_b64d(k).b) = FERNET_KEY_BYTES
    /\ len(k) = 44

----------------------------------------------------------------------------
(* C1: while exactly one of the salt row and the wrapped-key row is there, *)
(* no call, whatever its password, writes a settings row, commits or        *)
(* generates a File Master Key: the three rows stay as they were.           *)
C1_NoWriteWhilePartial ==
    PartialState(settings) =>
        \A c \in Calls(settings) :
            c.o.rows = settings /\ ~c.o.commit /\ ~c.o.generated /\ c.o.fmk = NoKey

\* Only the salt row is there and a call has been refused
C1_Witness ==
    /\ Present(settings, K_SALT) /\ ~Present(settings, K_WRAPPED)
    /\ last.kind = "InconsistentKeyState"
    /\ first = {}

(* C2: in every state reached from an empty key store by calls with any    *)
(* password, the salt row and the wrapped-key row are both there or both    *)
(* missing, in the connection's view and in what is committed.  It holds   *)
(* while every statement of the first run succeeds (Spec) and is broken by  *)
(* a first run whose second INSERT raises (SpecFault).                      *)
C2_BothOrNeither ==
    /\ Present(settings, K_SALT) = Present(settings, K_WRAPPED)
    /\ Present(committed, K_SALT) = Present(committed, K_WRAPPED)

(* C3: the first-run write is all-or-nothing: once a first run has failed  *)
(* after some but not all of its three INSERT statements, none of the rows  *)
(* is visible on the connection or committed, whatever commits later.       *)
C3_FirstRunAllOrNothing ==
    torn => (settings = NoRows /\ committed = NoRows)

(* C4: once a first run has created the three rows, no call, upload, open  *)
(* or delete changes any of them, in the connection's view or in what is    *)
(* committed; the unwrap path does not rewrite a stored iteration count,    *)
(* even one below the floor.                                                *)
C4_RowsOnlyRead ==
    [][(first # {} /\ manual' = manual)
        => (settings' = settings /\ committed' = committed)]_vars

\* The stored count is 1000, below the floor, and the unwrap path has run
C4_Witness ==
    /\ first # {}
    /\ fetchone(settings, K_ITERS) = {str(1000)}
    /\ last.kind = "ok" /\ ~last.generated /\ last.iters = DEFAULT_KDF_ITERS
    /\ docs # {}

(* C5: from an empty key store, every successful call returns the FMK the  *)
(* first run generated, and a call with the first run's password succeeds:  *)
(* two calls in sequence with the same password return the same FMK.        *)
C5_SameKey ==
    /\ last.kind = "ok" => (first # {} /\ last.fmk = FirstRun.fmk)
    /\ first # {} =>
        \A c \in Calls(settings) :
            /\ c.o.kind = "ok" => c.o.fmk = FirstRun.fmk
            /\ c.pw = FirstRun.pw => (c.o.kind = "ok" /\ c.o.fmk = FirstRun.fmk)

\* The second call with the first run's password has returned its key
C5_Witness ==
    /\ first # {}
    /\ last.kind = "ok" /\ ~last.generated
    /\ last.pw = FirstRun.pw /\ last.fmk = FirstRun.fmk

(* C6: after a first run with password P1, every call with a non-empty     *)
(* password P2 # P1 fails with UnlockFailed and returns no key.             *)
C6_WrongPassword ==
    first # {} =>
        \A c \in Calls(settings) :
            (c.pw # << >> /\ c.pw # FirstRun.pw)
                => (c.o.kind = "UnlockFailed" /\ c.o.fmk = NoKey)

\* A call with another password has been refused
C6_Witness ==
    /\ first # {}
    /\ last.pw # << >> /\ last.pw # FirstRun.pw
    /\ last.kind = "UnlockFailed"

Corrupted(rows) ==
    \/ Value(fetchone(rows, K_SALT)).enc # "b64"
    \/ Value(fetchone(rows, K_WRAPPED)).enc # "b64"
    \/ Value(fetchone(rows, K_WRAPPED)).of.mac # "ok"

(* C8: when salt and wrapped key are both there and one of them has been   *)
(* tampered with, truncated or is not validly encoded, a call with a        *)
(* non-empty password fails with UnlockFailed, as for a wrong password,     *)
(* and with no other kind of error.                                         *)
C8_CorruptedFailsUnlock ==
    (BothPresent(settings) /\ Corrupted(settings)
        /\ ~ItersUnreadable(fetchone(settings, K_ITERS))
        /\ last.kind # "none" /\ last.pw # << >>)
    => (last.kind = "UnlockFailed" /\ last.fmk = NoKey)

\* What the claim says the count is: the stored one from the floor up, the
\* default when the row is missing, empty or below the floor
ClaimedIters(iters_row) ==
    IF iters_row = {} THEN DEFAULT_KDF_ITERS
    ELSE IF Value(iters_row) = << >> THEN DEFAULT_KDF_ITERS
    ELSE IF int(Value(iters_row)) >= KDF_ITERS_FLOOR THEN int(Value(iters_row))
    ELSE DEFAULT_KDF_ITERS

(* C9: on every call that derives a key, first run or unwrap, the          *)
(* iteration count used is the stored one when that is at least 100,000     *)
(* and 390,000 when the row is missing, empty or below 100,000; it is       *)
(* never below 100,000.                                                     *)
C9_IterationFloor ==
    /\ last.iters # 0 => last.iters >= KDF_ITERS_FLOOR
    /\ \A c \in Calls(settings) :
            c.o.iters # 0 =>
                /\ c.o.iters = ClaimedIters(fetchone(settings, K_ITERS))
                /\ c.o.iters >= KDF_ITERS_FLOOR

\* A stored 99999 has been replaced by the default in an unwrap
C9_Witness ==
    /\ fetchone(settings, K_ITERS) = {str(99999)}
    /\ last.kind = "ok" /\ last.iters = DEFAULT_KDF_ITERS

(* C10: with an iteration row of 1000 and no salt or wrapped key, the      *)
(* first run wraps the FMK with 390000 iterations and stores 390000: a key  *)
(* derived with 1000 iterations does not unwrap the stored key, and the     *)
(* next call with the same password returns the same FMK.                   *)
C10_FloorOnFirstRun ==
    (fetchone(settings, K_ITERS) = {str(1000)}
        /\ ~Present(settings, K_SALT) /\ ~Present(settings, K_WRAPPED))
    => \A c \in Calls(settings) :
        c.pw # << >> =>
            LET salt == _b64d(Value(fetchone(c.o.rows, K_SALT))).b
                wrapped == _b64d(Value(fetchone(c.o.rows, K_WRAPPED))).b
                literal == _derive_wrapping_fernet_key(c.pw, salt, 1000)
            IN  /\ c.o.kind = "ok" /\ c.o.iters = 390000
                /\ fetchone(c.o.rows, K_ITERS) = {str(390000)}
                /\ wrapped.k.iters = 390000
                /\ ~Fernet_decrypt(literal, wrapped).ok
                /\ \A again \in Calls(c.o.rows) :
                        again.pw = c.pw
                            => (again.o.kind = "ok" /\ again.o.fmk = c.o.fmk)

\* A first run on a stored 1000, then a call that unwrapped the same key
C10_Witness ==
    /\ first # {}
    /\ FirstRun.iters_before = {str(1000)}
    /\ fetchone(settings, K_ITERS) = {str(390000)}
    /\ last.kind = "ok" /\ ~last.generated
    /\ last.pw = FirstRun.pw /\ last.fmk = FirstRun.fmk

(* C11: a call with an empty password fails with InvalidInput in every     *)
(* key-store state, whatever the rows hold (nothing, one half, an           *)
(* unreadable iteration count, a damaged value), and leaves the rows as     *)
(* they were: the password is checked before any row is read or written.   *)
C11_EmptyPassword ==
    \A c \in Calls(settings) :
        c.pw = << >> =>
            /\ c.o.kind = "InvalidInput" /\ c.o.fmk = NoKey
            /\ c.o.rows = settings /\ ~c.o.commit /\ ~c.o.generated

\* An empty password has been refused on rows whose iteration count int()
\* cannot read
C11_Witness ==
    /\ last.pw = << >> /\ last.kind = "InvalidInput"
    /\ ItersUnreadable(fetchone(settings, K_ITERS))

(* C12: the key derivation itself, given an empty password, fails with     *)
(* InvalidInput and produces no wrapping key.                               *)
C12_DerivationRejectsEmpty ==
    (cipher.step = "derived" /\ cipher.password = << >>)
        => cipher.kind = "InvalidInput"

(* C13: every ciphertext an upload stored decrypts to the plaintext it was  *)
(* made from under the FMK that any later session obtains with the password *)
(* of the uploading session from the committed rows; a later session with   *)
(* another password, the empty one included, obtains no key.                *)
C13_LaterSessions ==
    \A p \in DOMAIN uploaded \cap DOMAIN files :
        \A c \in Calls(committed) :
            IF c.pw = db_password
            THEN /\ c.o.kind = "ok"
                 /\ decrypt_bytes(c.o.fmk, files[p]) = [ok |-> TRUE, d |-> uploaded[p]]
            ELSE /\ c.o.kind \in {"UnlockFailed", "InvalidInput"}
                 /\ c.o.fmk = NoKey

\* A document was uploaded and opened, then another password was tried
C13_Witness ==
    /\ DOMAIN files # {} /\ DOMAIN tmp # {}
    /\ last.pw # db_password /\ last.kind = "UnlockFailed"

C15_RejectsOtherKeyOrDamage ==
    (cipher.step = "decrypted" /\ (cipher.how # "intact" \/ cipher.key # cipher.fmk))
        => ~cipher.out.ok

\* A ciphertext cut short has been given to decrypt_bytes under its own key
C15_Witness ==
    /\ cipher.step = "decrypted" /\ cipher.how = "truncated"
    /\ cipher.key = cipher.fmk /\ ~cipher.out.ok

(* C16, as claimed: the FMK a first run returns is 32 raw bytes long, and   *)
(* so is what every later successful unlock returns.                        *)
C16_ThirtyTwoRawBytes ==
    last.kind = "ok" => len(last.fmk) = FERNET_KEY_BYTES

(* C16, amended: the FMK a first run returns is a Fernet key, the 44-byte   *)
(* base64 text of 32 random bytes, and every later successful unlock        *)
(* returns a value of that form.                                            *)
C16_FernetKeyForm ==
    /\ last.kind = "ok" => IsFernetKey(last.fmk)
    /\ \A c \in Calls(settings) : c.o.kind = "ok" => IsFernetKey(c.o.fmk)

\* A first run has returned a key and a later unlock has returned it again
C16_Witness ==
    /\ first # {} /\ IsFernetKey(FirstRun.fmk)
    /\ last.kind = "ok" /\ ~last.generated /\ last.fmk = FirstRun.fmk

(* C17: in every reachable state no File Master Key can be read from a      *)
(* settings row, seen by the connection or committed, from a stored blob or *)
(* from a temporary file: the wrapped-key row holds a token made under the  *)
(* key derived from the password, and nothing else holds the key.           *)
C17_KeyNeverStoredPlain ==
    /\ \A k \in Fmks, rows \in {settings, committed}, key \in {K_SALT, K_WRAPPED} :
            Present(rows, key) => ~PlainIn(Value(rows[key]), k)
    /\ \A k \in Fmks, p \in DOMAIN files : files[p] # k
    /\ \A p \in DOMAIN files : files[p].d \in Plaintexts
    /\ \A t \in DOMAIN tmp : tmp[t] \in Plaintexts
    /\ \A rows \in {settings, committed} :
            /\ Present(rows, K_ITERS) => IsDecimal(Value(rows[K_ITERS]))
            /\ Present(rows, K_WRAPPED) =>
                    LET token == Value(rows[K_WRAPPED]).of
                    IN  /\ token.d = FirstRun.fmk /\ token.mac = "ok"
                        /\ token.k = _derive_wrapping_fernet_key(
                                         FirstRun.pw, Value(rows[K_SALT]).of,
                                         int(Value(rows[K_ITERS])))

\* The key material exists and the key has been used to store and to open a
\* document
C17_Witness ==
    /\ BothPresent(committed) /\ first # {}
    /\ DOMAIN files # {} /\ DOMAIN tmp # {}

(* C18: no upload, open or delete leaves the plaintext of a document in a   *)
(* file on disk: every file of the storage directory is a ciphertext and no *)
(* file of the temporary directory holds a document's plaintext.            *)
C18_OnlyCiphertextOnDisk ==
    /\ \A p \in DOMAIN files : files[p].d \in Plaintexts /\ files[p].k \in Fmks
    /\ \A f \in DOMAIN tmp : tmp[f] \notin Plaintexts

(* C19: a step adds a metadata row only when the row's .enc path holds the  *)
(* complete ciphertext of the uploaded plaintext, and an upload that fails  *)
(* while reading the source, unlocking the key, opening or writing the file *)
(* adds no row.                                                             *)
C19_RowOnlyAfterBlob ==
    [][/\ \A d \in docs' \ docs :
              /\ d.file_path \in DOMAIN files' \cap DOMAIN uploaded'
              /\ decrypt_bytes(last'.fmk, files'[d.file_path])
                     = [ok |-> TRUE, d |-> uploaded'[d.file_path]]
       /\ (/\ snack' # << >>
           /\ snack'[1].msg = "Error"
           /\ snack'[1].ex \notin {"insert", "commit"})
              => docs' = docs]_vars

\* An upload failed while writing: a partial file and no row for it
C19_Witness ==
    /\ snack = <<Msg("Error", "write")>>
    /\ \E p \in DOMAIN files :
           /\ files[p].mac = "cut"
           /\ \A d \in docs : d.file_path # p

(* C20: after any uploads and deletes, failed steps included, every .enc    *)
(* blob of the storage directory is referenced by exactly one metadata row  *)
(* and every metadata row references a blob that exists.                    *)
C20_OneBlobOneRow ==
    /\ \A p \in DOMAIN files : Cardinality({d \in docs : d.file_path = p}) = 1
    /\ \A d \in docs : d.file_path \in DOMAIN files

(* C21: across uploads and deletes an upload never overwrites an existing   *)
(* .enc file, and no two metadata rows point to the same ciphertext path,   *)
(* even when several uploaded files have the same display name.             *)
C21_NeverOverwrites ==
    /\ [](\A d1 \in docs, d2 \in docs :
              d1.file_path = d2.file_path => d1 = d2)
    /\ [][\A p \in DOMAIN files \cap DOMAIN files' : files'[p] = files[p]]_vars

\* Two uploads of the same picked file, each with its own row and blob
C21_Witness ==
    \E d1 \in docs, d2 \in docs :
        /\ d1.id # d2.id
        /\ d1.file_name.root = d2.file_name.root
        /\ d1.file_path # d2.file_path
        /\ {d1.file_path, d2.file_path} \subseteq DOMAIN files

(* C22: every open writes the plaintext to a temporary path no other open,  *)
(* earlier or in the same second, has used: two opens never share or        *)
(* overwrite a temporary file.                                              *)
C22_FreshTempPath ==
    \A d \in table[view], draw \in Draws(settings, NoFaults) :
        open_doc_async(d, draw).wrote => tmp_path(now) \notin DOMAIN tmp

\* The messages of a delete include a warning
Warned(snacks) ==
    \E i \in 1..Len(snacks) :
        snacks[i].msg \notin {"Record and file deleted.", "Delete failed"}

(* C23: a confirmed delete that finds the ciphertext file missing, or that  *)
(* cannot remove it, shows the user a warning distinct from the message     *)
(* 'Record and file deleted.'.                                              *)
C23_WarningOnFileTrouble ==
    \A d \in table[view], removeFails \in BOOLEAN :
        LET r == do_delete_async(d.id, removeFails)
        IN  (~r.exists \/ removeFails) => Warned(r.snack)

(* C24: a confirmed delete removes the metadata row whether or not the      *)
(* ciphertext file exists or can be removed: a missing or unremovable file  *)
(* never keeps the row and never makes the delete report failure.           *)
C24_RowRemovedRegardless ==
    \A d \in table[view], removeFails \in BOOLEAN :
        LET r == do_delete_async(d.id, removeFails)
        IN  /\ \A x \in r.docs : x.id # d.id
            /\ ~r.failed
            /\ \A i \in 1..Len(r.snack) : r.snack[i].msg # "Delete failed"
            /\ r.snack[Len(r.snack)].msg = "Record and file deleted."

\* A delete could not remove the file: the row is gone, the file is not,
\* while another row has lost its file
C24_Witness ==
    /\ Len(snack) = 2
    /\ snack[1].msg = "Deleted record, but file could not be removed."
    /\ \E p \in DOMAIN files : \A d \in docs : d.file_path # p
    /\ \E d \in docs : d.file_path \notin DOMAIN files

(* C25: whenever get_or_create_file_master_key or decrypt_bytes fails during *)
(* an upload or an open, the operation shows an error message and not its   *)
(* success message, and has none of its later effects: no ciphertext file,  *)
(* no temporary file, no metadata row.                                      *)
C25_FailureStopsOperation ==
    /\ \A picked \in PickedNames, plaintext \in Plaintexts, civ \in Ivs,
          draw \in Draws(settings, InsertFaults) :
           LET r == upload_document_click(picked, plaintext, civ, draw, "none")
           IN  r.o.kind # "ok" =>
                   /\ r.snack = <<Msg("Error", r.o.kind)>>
                   /\ r.files = files
                   /\ r.docs = docs
                   /\ r.nextId = nextId
                   /\ ~r.refresh
    /\ \A d \in table[view], draw \in Draws(settings, InsertFaults) :
           LET r == open_doc_async(d, draw)
           IN  /\ (r.called /\ r.o.kind # "ok") =>
                      /\ r.snack = <<Msg("Open failed", r.o.kind)>>
                      /\ r.tmp = tmp
                      /\ ~r.wrote
               /\ (/\ r.called
                   /\ r.o.kind = "ok"
                   /\ ~decrypt_bytes(r.o.fmk, files[d.file_path]).ok) =>
                      /\ r.snack = <<Msg("Open failed", "InvalidToken")>>
                      /\ r.tmp = tmp
                      /\ ~r.wrote

\* An open unlocked a key that does not open the stored file: it failed and
\* left no temporary file
C25_Witness ==
    /\ snack = <<Msg("Open failed", "InvalidToken")>>
    /\ DOMAIN files # {}
    /\ DOMAIN tmp = {}

\* What the stored wrapped key opens to under a password: salt and wrapped
\* key decoded, the effective iteration count, Fernet's decrypt
Unwrapped(rows, pw) ==
    Fernet_decrypt(
        _derive_wrapping_fernet_key(pw, _b64d(Value(fetchone(rows, K_SALT))).b,
                                    EffectiveIters(fetchone(rows, K_ITERS))),
        _b64d(Value(fetchone(rows, K_WRAPPED))).b)

(* C26: when uploads and opens are dispatched together against an empty key *)
(* store on the shared connection, in whatever order they run, at most one  *)
(* FMK is generated and persisted: a call generates a key only while the    *)
(* store is empty, every call that returns does so with the FMK whose       *)
(* wrapped form is in the store afterwards, and every stored file is        *)
(* encrypted under the FMK the store wraps, so none under a key that is     *)
(* lost.                                                                    *)
C26_OneKeyUnderConcurrency ==
    /\ \A c \in Calls(settings) :
           /\ c.o.generated => settings = NoRows
           /\ c.o.kind = "ok" =>
                  /\ BothPresent(c.o.rows)
                  /\ Unwrapped(c.o.rows, c.pw) = [ok |-> TRUE, d |-> c.o.fmk]
    /\ \A p \in DOMAIN files :
           /\ BothPresent(settings) /\ BothPresent(committed)
           /\ Unwrapped(settings, db_password) = [ok |-> TRUE, d |-> files[p].k]
           /\ Unwrapped(committed, db_password) = [ok |-> TRUE, d |-> files[p].k]

\* Two uploads have run from the empty store: the first generated the key,
\* the second unwrapped it, and both files are on disk
C26_Witness ==
    /\ first # {}
    /\ Cardinality(DOMAIN files) = 2
    /\ last.kind = "ok" /\ ~last.generated
    /\ \A p \in DOMAIN files : files[p].k = FirstRun.fmk

(* C27: when the picked name's .enc file exists, an upload stores the file  *)
(* under root (N) ext for the smallest N >= 1 whose .enc file does not      *)
(* exist, N always appended to the root of the picked name and never to a   *)
(* name already suffixed, and records that suffixed name in the row; when   *)
(* the picked name is free it is used as it is.                             *)
C27_SmallestFreeSuffix ==
    [][\A d \in docs' \ docs : \E picked \in PickedNames :
           LET Candidate(n) == Name(picked.root, picked.sfx \o <<n>>)
               Taken(n) == enc_target(Candidate(n)) \in DOMAIN files
           IN  /\ d.file_path = enc_target(d.file_name)
               /\ d.file_path \notin DOMAIN files
               /\ d.file_path \in DOMAIN files'
               /\ IF enc_target(picked) \notin DOMAIN files
                  THEN d.file_name = picked
                  ELSE \E N \in 1..(Cardinality(DOMAIN files) + 1) :
                           /\ d.file_name = Candidate(N)
                           /\ ~Taken(N)
                           /\ \A n \in 1..(N - 1) : Taken(n)]_vars

\* report, report (1) and report (2) were stored, report (1) was deleted and
\* the next upload of report took (1) again
C27_Witness ==
    \E d \in docs, e \in docs :
        /\ d.file_name = Name("report", <<1>>)
        /\ e.file_name = Name("report", <<2>>)
        /\ e.id < d.id
        /\ Name("report", << >>) \in DOMAIN files

(* C28: every temporary decrypted copy an open creates is eventually        *)
(* removed from disk: no plaintext temporary file stays forever.            *)
C28_TempEventuallyRemoved ==
    \A f \in 0..MaxTime : (f \in DOMAIN tmp) ~> (f \notin DOMAIN tmp)

(* C29: a row and its file are removed only by the task created when the    *)
(* confirmation dialog was confirmed while that document was pending; one   *)
(* confirmation at most is open, for one document; a delete click while the *)
(* dialog is open does not change the pending document; cancel or dismiss   *)
(* clears the pending document and deletes nothing.                         *)
C29_DeleteOnlyWhenConfirmed ==
    /\ [](/\ dlg_open <=> pending # {}
          /\ Cardinality(pending) <= 1
          /\ dlg_open => \A d \in table[view] : delete_handler(d).pending = pending)
    /\ [][/\ \A d \in docs \ docs' :
                 tasks # << >> /\ Head(tasks) = d.id /\ tasks' = Tail(tasks)
          /\ \A p \in DOMAIN files \ DOMAIN files' :
                 /\ tasks # << >> /\ tasks' = Tail(tasks)
                 /\ \E d \in docs : d.id = Head(tasks) /\ d.file_path = p
          /\ Len(tasks') > Len(tasks) =>
                 /\ dlg_open /\ pending # {}
                 /\ tasks' = Append(tasks, Value(pending).id)
                 /\ ~dlg_open' /\ pending' = {}
          /\ (dlg_open /\ pending' # pending) => (pending' = {} /\ ~dlg_open')
          /\ (dlg_open /\ ~dlg_open' /\ tasks' = tasks) =>
                 (pending' = {} /\ docs' = docs /\ files' = files)]_vars

\* Of two uploaded documents one was asked for, confirmed and deleted by
\* its task: its row and file are gone, the other row and file are there
C29_Witness ==
    /\ snack # << >>
    /\ snack[Len(snack)].msg = "Record and file deleted."
    /\ tasks = << >> /\ ~dlg_open /\ pending = {}
    /\ nextId = 3
    /\ Cardinality(docs) = 1
    /\ Cardinality(DOMAIN files) = 1

(* C30: after the documents view has been built more than once, a confirmed *)
(* delete still refreshes the table of the view built last, the one on      *)
(* display: once the delete has completed, the deleted document is not in   *)
(* the visible table.                                                       *)
C30_DisplayedTableRefreshed ==
    (snack # << >> /\ snack[Len(snack)].msg = "Record and file deleted.")
        => table[view] = docs
====
